---- MODULE Spec2Model ----
(***************************************************************************)
(* Model of corporate/views.py: the billing views of a realm (upgrade      *)
(* page, upgrade request, billing page, downgrade, payment-source          *)
(* replacement) over the local Customer record and the processor-side      *)
(* subscription state.  Each view is one atomic step that leaves the       *)
(* request and its response in `last` until Deliver hands the response     *)
(* back.  Routines imported from corporate.lib.stripe and zerver.decorator *)
(* are modelled from their documented contract.                            *)
(*                                                                         *)
(* Spec        all views, with the upgrade requests the page's form sends  *)
(* SpecUpgrade every upgrade request a client can send (all parameter      *)
(*             combinations, altered and forged signed seat counts)        *)
(***************************************************************************)
EXTENDS Integers, Sequences, FiniteSets, TLC

None == "None"

(* ---------------------------------------------------------------------- *)
(* Bounds and input domains                                                *)
(* ---------------------------------------------------------------------- *)

\* cap on the number of subscriptions the processor is asked to create
MaxSubs == 2

\* floor for invoiced contracts (imported from corporate.lib.stripe)
MIN_INVOICED_LICENSES == 25

Users == {"iago", "hamlet", "othello"}
is_realm_admin(u) == u = "iago"
is_billing_admin(u) == u = "hamlet"

SeatCounts == {12, 26}
Salts == {"s1", "s2"}
\* licenses is an optional integer: NoLicenses stands for Python's None
NoLicenses == -1
LicenseChoices == {NoLicenses, 5, 12, 25, 26}
ModalityChoices == {"charge_automatically", "send_invoice", "bogus"}
ScheduleChoices == {"annual", "monthly", "bogus"}
LicenseManagementChoices == {"automatic", "manual", "mix", None}
TokenChoices == {None, "tok_visa"}
Last4Choices == {"4242", "0005"}
BalanceChoices == {-1500, 0, 123456}
InvoiceTotalChoices == {9600, 80000}

(* ---------------------------------------------------------------------- *)
(* str() and int() on non-negative integers: decimal digit strings         *)
(* ---------------------------------------------------------------------- *)

Digits == <<"0", "1", "2", "3", "4", "5", "6", "7", "8", "9">>

DigitValue(c) == CHOOSE d \in 0..9 : Digits[d + 1] = c

RECURSIVE str(_)
str(n) == IF n < 10 THEN <<Digits[n + 1]>> ELSE Append(str(n \div 10), Digits[(n % 10) + 1])

RECURSIVE int(_)
int(s) == IF Len(s) = 0 THEN 0
          ELSE 10 * int(SubSeq(s, 1, Len(s) - 1)) + DigitValue(s[Len(s)])

\* thousands separators of the ',' format option
RECURSIVE Grouped(_)
Grouped(s) == IF Len(s) <= 3 THEN s
              ELSE Grouped(SubSeq(s, 1, Len(s) - 3)) \o <<",">> \o SubSeq(s, Len(s) - 2, Len(s))

\* '{:,.2f}'.format(cents / 100.) for cents >= 0
Format2f(cents) ==
    Grouped(str(cents \div 100)) \o <<".">>
        \o <<Digits[((cents % 100) \div 10) + 1], Digits[(cents % 10) + 1]>>

(* ---------------------------------------------------------------------- *)
(* Exceptions and responses                                                *)
(* ---------------------------------------------------------------------- *)

NoDescription == [text |-> "", arg |-> <<>>]

NoExc == [type |-> None, message |-> None, description |-> NoDescription]

BillingError(message, description) ==
    [type |-> "BillingError", message |-> message, description |-> description]

\* signing.BadSignature and any other failure that is not a BillingError
BadSignature == [type |-> "BadSignature", message |-> "Signature does not match",
                 description |-> NoDescription]

UnexpectedException == [type |-> "Exception", message |-> "raw exception text",
                        description |-> NoDescription]

CONTACT_SUPPORT == "Something went wrong. Please contact support."

NoContext == [admin_access |-> None]

Response(kind, msg, description, to, exc, context) ==
    [kind |-> kind, msg |-> msg, error_description |-> description,
     to |-> to, exc |-> exc, context |-> context]

json_success == Response("json_success", None, NoDescription, None, NoExc, NoContext)

json_error(msg, description) ==
    Response("json_error", msg, description, None, NoExc, NoContext)

HttpResponseRedirect(to) ==
    Response("redirect", None, NoDescription, to, NoExc, NoContext)

render(template, context) ==
    Response("render", None, NoDescription, template, NoExc, context)

\* the exception leaves the view function
Propagates(exc) == Response("exception", None, NoDescription, None, exc, NoContext)

(* ---------------------------------------------------------------------- *)
(* Seat-count signing                                                      *)
(* ---------------------------------------------------------------------- *)

\* keyed signature over (value, salt); only the server holds SECRET_KEY
Mac(value, salt, key) == [value |-> value, salt |-> salt, key |-> key]

\* sign_string: value ':' signature, with the salt handed back beside it
sign_string(string, salt) ==
    [signed |-> [value |-> string, sig |-> Mac(string, salt, "SECRET_KEY")],
     salt |-> salt]

unsign_string(signed_string, salt) ==
    IF signed_string.sig = Mac(signed_string.value, salt, "SECRET_KEY")
    THEN [exc |-> NoExc, value |-> signed_string.value]
    ELSE [exc |-> BadSignature, value |-> <<>>]

\* faulty variant: the count is read without the signature being verified
unsign_seat_count_unverified(signed_seat_count, salt) ==
    [exc |-> NoExc, value |-> int(signed_seat_count.value)]

unsign_seat_count(signed_seat_count, salt) ==
    LET r == unsign_string(signed_seat_count, salt) IN
    IF r.exc = BadSignature
    THEN [exc |-> BillingError("tampered seat count", NoDescription), value |-> 0]
    ELSE [exc |-> NoExc, value |-> int(r.value)]

(* ---------------------------------------------------------------------- *)
(* Upgrade-parameter validation                                            *)
(* ---------------------------------------------------------------------- *)

max(a, b) == IF a >= b THEN a ELSE b

\* "You must invoice for at least {} users.".format(min_licenses)
AtLeastUsers(min_licenses) ==
    [text |-> "You must invoice for at least {} users.", arg |-> str(min_licenses)]

\* faulty variant: the licenses check comes before the payment-token check
check_upgrade_parameters_licenses_first(billing_modality, schedule, license_management, licenses, has_stripe_token, seat_count) ==
    LET min_licenses == IF billing_modality = "send_invoice"
                        THEN max(seat_count, MIN_INVOICED_LICENSES)
                        ELSE seat_count
    IN
    IF billing_modality \notin {"send_invoice", "charge_automatically"}
    THEN BillingError("unknown billing_modality", NoDescription)
    ELSE IF schedule \notin {"annual", "monthly"}
    THEN BillingError("unknown schedule", NoDescription)
    ELSE IF license_management \notin {"automatic", "manual", "mix"}
    THEN BillingError("unknown license_management", NoDescription)
    ELSE IF licenses = NoLicenses \/ licenses < min_licenses
    THEN BillingError("not enough licenses", AtLeastUsers(min_licenses))
    ELSE IF billing_modality = "charge_automatically" /\ ~has_stripe_token
    THEN BillingError("autopay with no card", NoDescription)
    ELSE NoExc

\* faulty variant: invoiced contracts get no floor of their own
check_upgrade_parameters_no_floor(billing_modality, schedule, license_management, licenses, has_stripe_token, seat_count) ==
    LET min_licenses == seat_count
    IN
    IF billing_modality \notin {"send_invoice", "charge_automatically"}
    THEN BillingError("unknown billing_modality", NoDescription)
    ELSE IF schedule \notin {"annual", "monthly"}
    THEN BillingError("unknown schedule", NoDescription)
    ELSE IF license_management \notin {"automatic", "manual", "mix"}
    THEN BillingError("unknown license_management", NoDescription)
    ELSE IF billing_modality = "charge_automatically" /\ ~has_stripe_token
    THEN BillingError("autopay with no card", NoDescription)
    ELSE IF licenses = NoLicenses \/ licenses < min_licenses
    THEN BillingError("not enough licenses", AtLeastUsers(min_licenses))
    ELSE NoExc

\* faulty variant: the number of licenses is not checked
check_upgrade_parameters_any_licenses(billing_modality, schedule, license_management, licenses, has_stripe_token, seat_count) ==
    IF billing_modality \notin {"send_invoice", "charge_automatically"}
    THEN BillingError("unknown billing_modality", NoDescription)
    ELSE IF schedule \notin {"annual", "monthly"}
    THEN BillingError("unknown schedule", NoDescription)
    ELSE IF license_management \notin {"automatic", "manual", "mix"}
    THEN BillingError("unknown license_management", NoDescription)
    ELSE IF billing_modality = "charge_automatically" /\ ~has_stripe_token
    THEN BillingError("autopay with no card", NoDescription)
    ELSE NoExc

\* faulty variant: license_management is checked before schedule
check_upgrade_parameters_management_first(billing_modality, schedule, license_management, licenses, has_stripe_token, seat_count) ==
    LET min_licenses == IF billing_modality = "send_invoice"
                        THEN max(seat_count, MIN_INVOICED_LICENSES)
                        ELSE seat_count
    IN
    IF billing_modality \notin {"send_invoice", "charge_automatically"}
    THEN BillingError("unknown billing_modality", NoDescription)
    ELSE IF license_management \notin {"automatic", "manual", "mix"}
    THEN BillingError("unknown license_management", NoDescription)
    ELSE IF schedule \notin {"annual", "monthly"}
    THEN BillingError("unknown schedule", NoDescription)
    ELSE IF billing_modality = "charge_automatically" /\ ~has_stripe_token
    THEN BillingError("autopay with no card", NoDescription)
    ELSE IF licenses = NoLicenses \/ licenses < min_licenses
    THEN BillingError("not enough licenses", AtLeastUsers(min_licenses))
    ELSE NoExc

\* the exception raised by the validator; NoExc when it returns normally
check_upgrade_parameters(billing_modality, schedule, license_management, licenses, has_stripe_token, seat_count) ==
    LET min_licenses == IF billing_modality = "send_invoice"
                        THEN max(seat_count, MIN_INVOICED_LICENSES)
                        ELSE seat_count
    IN
    IF billing_modality \notin {"send_invoice", "charge_automatically"}
    THEN BillingError("unknown billing_modality", NoDescription)
    ELSE IF schedule \notin {"annual", "monthly"}
    THEN BillingError("unknown schedule", NoDescription)
    ELSE IF license_management \notin {"automatic", "manual", "mix"}
    THEN BillingError("unknown license_management", NoDescription)
    ELSE IF billing_modality = "charge_automatically" /\ ~has_stripe_token
    THEN BillingError("autopay with no card", NoDescription)
    ELSE IF licenses = NoLicenses \/ licenses < min_licenses
    THEN BillingError("not enough licenses", AtLeastUsers(min_licenses))
    ELSE NoExc

(* ---------------------------------------------------------------------- *)
(* Processor-side snapshot and payment-method description                  *)
(* ---------------------------------------------------------------------- *)

NoSubscription == [billing |-> None, quantity |-> 0, plan |-> None, current_period_end |-> 0]

NoSource == [object |-> None, last4 |-> ""]
Card(last4) == [object |-> "card", last4 |-> last4]
AchSource == [object |-> "source", last4 |-> ""]
SourceChoices == {NoSource, AchSource} \cup {Card(d) : d \in Last4Choices}

\* the active subscription of the processor customer, or NoSubscription
extract_current_subscription(stripe_customer) == stripe_customer.subscription

ZULIP_ADMINISTRATOR == "zulip-admin@example.com"

\* faulty variant: the default source is looked at before the billing mode
payment_method_string_source_first(stripe_customer) ==
    LET subscription == extract_current_subscription(stripe_customer)
        stripe_source == stripe_customer.default_source
    IN
    IF stripe_source = NoSource
    THEN [text |-> "No payment method on file", arg |-> ""]
    ELSE IF stripe_source.object = "card"
    THEN [text |-> "Card ending in %(last4)s", arg |-> stripe_source.last4]
    ELSE IF subscription # NoSubscription /\ subscription.billing = "send_invoice"
    THEN [text |-> "Billed by invoice", arg |-> ""]
    ELSE [text |-> "Unknown payment method. Please contact %s.",
          arg |-> ZULIP_ADMINISTRATOR]

payment_method_string(stripe_customer) ==
    LET subscription == extract_current_subscription(stripe_customer)
        stripe_source == stripe_customer.default_source
    IN
    IF subscription # NoSubscription /\ subscription.billing = "send_invoice"
    THEN [text |-> "Billed by invoice", arg |-> ""]
    ELSE IF stripe_source = NoSource
    THEN [text |-> "No payment method on file", arg |-> ""]
    ELSE IF stripe_source.object = "card"
    THEN [text |-> "Card ending in %(last4)s", arg |-> stripe_source.last4]
    ELSE [text |-> "Unknown payment method. Please contact %s.",
          arg |-> ZULIP_ADMINISTRATOR]

(* ---------------------------------------------------------------------- *)
(* The upgrade request                                                     *)
(* ---------------------------------------------------------------------- *)

ANNUAL == "CustomerPlan.ANNUAL"
MONTHLY == "CustomerPlan.MONTHLY"

\* what the processor-facing routine may do: complete, fail with a
\* BillingError, or fail with anything else
ProcessorOutcomes == {"ok", "BillingError", "Exception"}

ProcessorBillingError == BillingError("card error", [text |-> "Your card was declined.",
                                                      arg |-> <<>>])

OutcomeExc(outcome) ==
    CASE outcome = "ok" -> NoExc
      [] outcome = "BillingError" -> ProcessorBillingError
      [] outcome = "Exception" -> UnexpectedException

NoLog == <<>>

\* faulty variant: the processor is called before the parameters are checked
upgrade_try_process_first(p, outcome) ==
    LET unsigned == unsign_seat_count(p.signed_seat_count, p.salt)
        seat_count == unsigned.value
        licenses == IF p.billing_modality = "charge_automatically"
                       /\ p.license_management = "automatic"
                    THEN seat_count ELSE p.licenses
        schedule == IF p.billing_modality = "send_invoice" THEN "annual" ELSE p.schedule
        license_management == IF p.billing_modality = "send_invoice" THEN "manual"
                              ELSE p.license_management
        checked == check_upgrade_parameters(p.billing_modality, schedule,
                       license_management, licenses, p.stripe_token # None, seat_count)
        billing_schedule == IF schedule = "annual" THEN ANNUAL ELSE MONTHLY
        nocall == [seat_count |-> seat_count, licenses |-> NoLicenses,
                   billing_schedule |-> None, stripe_token |-> None, calls |-> 0]
    IN
    IF unsigned.exc # NoExc
    THEN [exc |-> unsigned.exc] @@ [nocall EXCEPT !.seat_count = 0]
    ELSE [exc |-> IF outcome # "ok" THEN OutcomeExc(outcome) ELSE checked, seat_count |-> seat_count, licenses |-> licenses,
          billing_schedule |-> billing_schedule, stripe_token |-> p.stripe_token,
          calls |-> 1]

\* faulty variant: licenses is left as the client sent it
upgrade_try_unnormalized(p, outcome) ==
    LET unsigned == unsign_seat_count(p.signed_seat_count, p.salt)
        seat_count == unsigned.value
        licenses == p.licenses
        schedule == IF p.billing_modality = "send_invoice" THEN "annual" ELSE p.schedule
        license_management == IF p.billing_modality = "send_invoice" THEN "manual"
                              ELSE p.license_management
        checked == check_upgrade_parameters(p.billing_modality, schedule,
                       license_management, licenses, p.stripe_token # None, seat_count)
        billing_schedule == IF schedule = "annual" THEN ANNUAL ELSE MONTHLY
        nocall == [seat_count |-> seat_count, licenses |-> NoLicenses,
                   billing_schedule |-> None, stripe_token |-> None, calls |-> 0]
    IN
    IF unsigned.exc # NoExc
    THEN [exc |-> unsigned.exc] @@ [nocall EXCEPT !.seat_count = 0]
    ELSE IF checked # NoExc
    THEN [exc |-> checked] @@ nocall
    ELSE [exc |-> OutcomeExc(outcome), seat_count |-> seat_count, licenses |-> licenses,
          billing_schedule |-> billing_schedule, stripe_token |-> p.stripe_token,
          calls |-> 1]

\* faulty variant: every subscription is created on the annual schedule
upgrade_try_annual_only(p, outcome) ==
    LET unsigned == unsign_seat_count(p.signed_seat_count, p.salt)
        seat_count == unsigned.value
        licenses == IF p.billing_modality = "charge_automatically"
                       /\ p.license_management = "automatic"
                    THEN seat_count ELSE p.licenses
        schedule == IF p.billing_modality = "send_invoice" THEN "annual" ELSE p.schedule
        license_management == IF p.billing_modality = "send_invoice" THEN "manual"
                              ELSE p.license_management
        checked == check_upgrade_parameters(p.billing_modality, schedule,
                       license_management, licenses, p.stripe_token # None, seat_count)
        billing_schedule == ANNUAL
        nocall == [seat_count |-> seat_count, licenses |-> NoLicenses,
                   billing_schedule |-> None, stripe_token |-> None, calls |-> 0]
    IN
    IF unsigned.exc # NoExc
    THEN [exc |-> unsigned.exc] @@ [nocall EXCEPT !.seat_count = 0]
    ELSE IF checked # NoExc
    THEN [exc |-> checked] @@ nocall
    ELSE [exc |-> OutcomeExc(outcome), seat_count |-> seat_count, licenses |-> licenses,
          billing_schedule |-> billing_schedule, stripe_token |-> p.stripe_token,
          calls |-> 1]

\* faulty variant: a failed process_initial_upgrade call is made a second time
upgrade_try_retry(p, outcome) ==
    LET unsigned == unsign_seat_count(p.signed_seat_count, p.salt)
        seat_count == unsigned.value
        licenses == IF p.billing_modality = "charge_automatically"
                       /\ p.license_management = "automatic"
                    THEN seat_count ELSE p.licenses
        schedule == IF p.billing_modality = "send_invoice" THEN "annual" ELSE p.schedule
        license_management == IF p.billing_modality = "send_invoice" THEN "manual"
                              ELSE p.license_management
        checked == check_upgrade_parameters(p.billing_modality, schedule,
                       license_management, licenses, p.stripe_token # None, seat_count)
        billing_schedule == IF schedule = "annual" THEN ANNUAL ELSE MONTHLY
        nocall == [seat_count |-> seat_count, licenses |-> NoLicenses,
                   billing_schedule |-> None, stripe_token |-> None, calls |-> 0]
    IN
    IF unsigned.exc # NoExc
    THEN [exc |-> unsigned.exc] @@ [nocall EXCEPT !.seat_count = 0]
    ELSE IF checked # NoExc
    THEN [exc |-> checked] @@ nocall
    ELSE [exc |-> OutcomeExc(outcome), seat_count |-> seat_count, licenses |-> licenses,
          billing_schedule |-> billing_schedule, stripe_token |-> p.stripe_token,
          calls |-> IF outcome = "ok" THEN 1 ELSE 2]

\* the try block of upgrade: the exception it ends with, the arguments of
\* the process_initial_upgrade call and how many times that call was made
upgrade_try(p, outcome) ==
    LET unsigned == unsign_seat_count(p.signed_seat_count, p.salt)
        seat_count == unsigned.value
        licenses == IF p.billing_modality = "charge_automatically"
                       /\ p.license_management = "automatic"
                    THEN seat_count ELSE p.licenses
        schedule == IF p.billing_modality = "send_invoice" THEN "annual" ELSE p.schedule
        license_management == IF p.billing_modality = "send_invoice" THEN "manual"
                              ELSE p.license_management
        checked == check_upgrade_parameters(p.billing_modality, schedule,
                       license_management, licenses, p.stripe_token # None, seat_count)
        billing_schedule == IF schedule = "annual" THEN ANNUAL ELSE MONTHLY
        nocall == [seat_count |-> seat_count, licenses |-> NoLicenses,
                   billing_schedule |-> None, stripe_token |-> None, calls |-> 0]
    IN
    IF unsigned.exc # NoExc
    THEN [exc |-> unsigned.exc] @@ [nocall EXCEPT !.seat_count = 0]
    ELSE IF checked # NoExc
    THEN [exc |-> checked] @@ nocall
    ELSE [exc |-> OutcomeExc(outcome), seat_count |-> seat_count, licenses |-> licenses,
          billing_schedule |-> billing_schedule, stripe_token |-> p.stripe_token,
          calls |-> 1]

\* the except / else clauses of upgrade
upgrade_response(exc) ==
    IF exc = NoExc THEN json_success
    ELSE IF exc.type = "BillingError" THEN json_error(exc.message, exc.description)
    ELSE json_error(CONTACT_SUPPORT,
                    [text |-> "uncaught exception during upgrade", arg |-> <<>>])

\* billing_logger.exception("Uncaught exception in billing: %s" % (e,))
upgrade_log(exc) ==
    IF exc # NoExc /\ exc.type # "BillingError"
    THEN <<[text |-> "Uncaught exception in billing: %s", arg |-> exc.message]>>
    ELSE NoLog

(* ---------------------------------------------------------------------- *)
(* State                                                                   *)
(* ---------------------------------------------------------------------- *)

VARIABLES
    BILLING_ENABLED,   \* settings.BILLING_ENABLED
    seats,             \* get_seat_count(realm)
    customer,          \* the realm's Customer row, if any
    subscription,      \* processor side: the customer's active subscription
    default_source,    \* processor side: the customer's default payment source
    subs_created,      \* processor side: subscriptions created so far
    issued,            \* the (signed seat count, salt) pairs the upgrade page handed out
    last               \* the request being answered: arguments, locals, response

vars == <<BILLING_ENABLED, seats, customer, subscription, default_source,
          subs_created, issued, last>>

\* default_discount is optional: NoDiscount stands for Python's None
NoDiscount == -1

NoCustomer == [exists |-> FALSE, has_billing_relationship |-> FALSE,
               default_discount |-> NoDiscount]

NoToken == [signed |-> [value |-> <<>>, sig |-> Mac(<<>>, None, None)], salt |-> None]

NoParams == [billing_modality |-> None, schedule |-> None, license_management |-> None,
             licenses |-> NoLicenses, stripe_token |-> None,
             signed_seat_count |-> NoToken.signed, salt |-> None]

\* a handled request; the fields an operation does not have keep these values
Handled == [op |-> None, user |-> None, params |-> NoParams, before |-> NoCustomer,
            seat_count |-> 0, licenses |-> NoLicenses, billing_schedule |-> None,
            calls |-> 0, stripe_calls |-> 0, account_balance |-> 0,
            subscription_before |-> NoSubscription, log |-> NoLog,
            response |-> json_success]

Init ==
    /\ BILLING_ENABLED \in BOOLEAN
    /\ seats \in SeatCounts
    /\ customer \in {NoCustomer,
                     [exists |-> TRUE, has_billing_relationship |-> FALSE,
                      default_discount |-> 20]}
    /\ subscription = NoSubscription
    /\ default_source = NoSource
    /\ subs_created = 0
    /\ issued = {}
    /\ last = Handled

(* ---------------------------------------------------------------------- *)
(* What a client can present as (signed_seat_count, salt)                  *)
(* ---------------------------------------------------------------------- *)

OtherSalt(salt) == CHOOSE s \in Salts : s # salt

\* a count the page never signed for this realm
AlteredCount == 5

Forged(value, salt) ==
    [signed |-> [value |-> value, sig |-> Mac(value, salt, "attacker")], salt |-> salt]

Altered(t) ==
    { [t EXCEPT !.signed.value = str(AlteredCount)],
      [t EXCEPT !.salt = OtherSalt(t.salt)],
      Forged(t.signed.value, t.salt) }

\* a client presents a pair the page handed out, such a pair altered, or a
\* pair it made up
Presented ==
    issued \cup UNION {Altered(t) : t \in issued} \cup {Forged(str(AlteredCount), "s1")}

UpgradeRequests ==
    { [billing_modality |-> bm, schedule |-> sc, license_management |-> lm,
       licenses |-> li, stripe_token |-> st,
       signed_seat_count |-> t.signed, salt |-> t.salt] :
         bm \in ModalityChoices, sc \in ScheduleChoices,
         lm \in LicenseManagementChoices, li \in LicenseChoices,
         st \in TokenChoices, t \in Presented }

Request(bm, sc, lm, li, st, t) ==
    [billing_modality |-> bm, schedule |-> sc, license_management |-> lm,
     licenses |-> li, stripe_token |-> st,
     signed_seat_count |-> t.signed, salt |-> t.salt]

\* the requests the upgrade page's form sends, and three a client makes up
CommonRequests ==
    UNION { { Request("charge_automatically", "monthly", "automatic", NoLicenses,
                      "tok_visa", t),
              Request("charge_automatically", "annual", "manual", seats, "tok_visa", t),
              Request("send_invoice", "annual", "manual",
                      max(seats, MIN_INVOICED_LICENSES), None, t),
              Request("charge_automatically", "annual", "automatic", NoLicenses, None, t),
              Request("send_invoice", "monthly", None, 5, "tok_visa", t),
              Request("charge_automatically", "monthly", "automatic", NoLicenses,
                      "tok_visa", [t EXCEPT !.signed.value = str(AlteredCount)]) }
            : t \in issued }


(* ---------------------------------------------------------------------- *)
(* Processor-facing routines of corporate.lib.stripe                       *)
(* ---------------------------------------------------------------------- *)

\* the period end the processor reports for a new subscription (a timestamp)
PeriodEnd == 1577836800

CLOUD_ANNUAL == "Plan.CLOUD_ANNUAL"
CLOUD_MONTHLY == "Plan.CLOUD_MONTHLY"

\* attaches the payment method if a token is given, creates the subscription
\* at the processor, then records the billing relationship on the Customer
process_initial_upgrade(user, licenses, billing_schedule, stripe_token) ==
    /\ subs_created < MaxSubs
    /\ subs_created' = subs_created + 1
    /\ subscription' =
         [billing |-> IF stripe_token # None THEN "charge_automatically"
                      ELSE "send_invoice",
          quantity |-> licenses,
          plan |-> IF billing_schedule = ANNUAL THEN CLOUD_ANNUAL ELSE CLOUD_MONTHLY,
          current_period_end |-> PeriodEnd]
    /\ default_source' = IF stripe_token # None THEN Card("4242")
                         ELSE IF default_source = NoSource THEN AchSource
                         ELSE default_source
    /\ customer' = [customer EXCEPT !.exists = TRUE, !.has_billing_relationship = TRUE]

\* cancels the active subscription; nothing to cancel is not an error
process_downgrade(user) ==
    /\ subscription' = NoSubscription
    /\ UNCHANGED <<customer, default_source, subs_created>>

\* attaches the card to the existing processor customer as its default source
do_replace_payment_source(user, stripe_token) ==
    /\ default_source' = Card("4242")
    /\ UNCHANGED <<customer, subscription, subs_created>>

\* zerver.decorator.require_billing_access
require_billing_access(user) == is_realm_admin(user) \/ is_billing_admin(user)

NoBillingAccess == json_error("Must be a billing administrator or an organization administrator",
                              NoDescription)

(* ---------------------------------------------------------------------- *)
(* Views                                                                   *)
(* ---------------------------------------------------------------------- *)

\* no request is being answered
Idle == last = Handled

upgrade(user, requests) ==
    /\ Idle
    /\ \E p \in requests, outcome \in ProcessorOutcomes :
        LET t == upgrade_try(p, outcome) IN
        /\ t.calls = 0 => outcome = "ok"
        /\ IF t.calls > 0 /\ outcome = "ok"
           THEN process_initial_upgrade(user, t.licenses, t.billing_schedule, t.stripe_token)
           ELSE UNCHANGED <<customer, subscription, default_source, subs_created>>
        /\ last' = [Handled EXCEPT !.op = "upgrade", !.user = user, !.params = p,
                       !.before = customer, !.seat_count = t.seat_count,
                       !.licenses = t.licenses, !.billing_schedule = t.billing_schedule,
                       !.calls = t.calls, !.log = upgrade_log(t.exc),
                       !.response = upgrade_response(t.exc)]
        /\ UNCHANGED <<BILLING_ENABLED, seats, issued>>

UpgradeContext(seat_count, signed, percent_off) ==
    [seat_count |-> seat_count, signed_seat_count |-> signed.signed, salt |-> signed.salt,
     min_invoiced_licenses |-> max(seat_count, MIN_INVOICED_LICENSES),
     plan |-> "Zulip Standard", percent_off |-> percent_off]

\* faulty variant: any Customer is sent to the billing page
initial_upgrade_view_any_customer(enabled, cust, seat_count, salt) ==
    LET percent_off == IF cust.exists /\ cust.default_discount # NoDiscount
                       THEN cust.default_discount ELSE 0
        signed == sign_string(str(seat_count), salt)
    IN
    IF ~enabled THEN render("404.html", NoContext)
    ELSE IF cust.exists
    THEN HttpResponseRedirect("corporate.views.billing_home")
    ELSE render("corporate/upgrade.html", UpgradeContext(seat_count, signed, percent_off))

\* the response of initial_upgrade
initial_upgrade_view(enabled, cust, seat_count, salt) ==
    LET percent_off == IF cust.exists /\ cust.default_discount # NoDiscount
                       THEN cust.default_discount ELSE 0
        signed == sign_string(str(seat_count), salt)
    IN
    IF ~enabled THEN render("404.html", NoContext)
    ELSE IF cust.exists /\ cust.has_billing_relationship
    THEN HttpResponseRedirect("corporate.views.billing_home")
    ELSE render("corporate/upgrade.html", UpgradeContext(seat_count, signed, percent_off))

initial_upgrade(user) ==
    /\ Idle
    /\ \E salt \in Salts :
        LET response == initial_upgrade_view(BILLING_ENABLED, customer, seats, salt) IN
        /\ response.to # "corporate/upgrade.html" => salt = "s1"
        /\ issued' = IF response.to = "corporate/upgrade.html"
                     THEN issued \cup {sign_string(str(seats), salt)} ELSE issued
        /\ last' = [Handled EXCEPT !.op = "initial_upgrade", !.user = user,
                       !.before = customer, !.response = response]
        /\ UNCHANGED <<BILLING_ENABLED, seats, customer, subscription, default_source,
                       subs_created>>

PLAN_NAMES(nickname) ==
    CASE nickname = CLOUD_ANNUAL -> "Zulip Standard (billed annually)"
      [] nickname = CLOUD_MONTHLY -> "Zulip Standard (billed monthly)"

Absent == <<>>

NoDate == [fmt |-> "", dt |-> 0]

\* the context of corporate/billing.html; a key the view did not set is Absent
BillingContext == [admin_access |-> FALSE, account_charges |-> Absent,
                   account_credits |-> Absent, plan_name |-> None, licenses |-> NoLicenses,
                   renewal_date |-> NoDate, renewal_amount |-> Absent,
                   payment_method |-> [text |-> None, arg |-> ""],
                   billed_by_invoice |-> None, stripe_email |-> None]

\* faulty variant: only the absence of a Customer redirects
billing_home_view_any_customer(user, cust, stripe_customer, invoice_total) ==
    IF ~cust.exists
    THEN [response |-> HttpResponseRedirect("corporate.views.initial_upgrade"),
          stripe_calls |-> 0]
    ELSE IF ~is_realm_admin(user) /\ ~is_billing_admin(user)
    THEN [response |-> render("corporate/billing.html", BillingContext), stripe_calls |-> 0]
    ELSE
    LET sub == extract_current_subscription(stripe_customer)
        balance == stripe_customer.account_balance
        c1 == [BillingContext EXCEPT !.admin_access = TRUE]
        c2 == IF balance > 0 THEN [c1 EXCEPT !.account_charges = Format2f(balance)] ELSE c1
        c3 == IF balance < 0 THEN [c2 EXCEPT !.account_credits = Format2f(-balance)] ELSE c2
        renewal_amount == IF sub # NoSubscription THEN invoice_total ELSE 0
        c4 == [c3 EXCEPT
                 !.plan_name = IF sub # NoSubscription THEN PLAN_NAMES(sub.plan)
                               ELSE "Zulip Free",
                 !.licenses = IF sub # NoSubscription THEN sub.quantity ELSE 0,
                 !.renewal_date = IF sub # NoSubscription
                                  THEN [fmt |-> "{dt:%B} {dt.day}, {dt.year}",
                                        dt |-> sub.current_period_end]
                                  ELSE NoDate,
                 !.renewal_amount = Format2f(renewal_amount),
                 !.payment_method = payment_method_string(stripe_customer),
                 !.billed_by_invoice = IF sub # NoSubscription
                                       THEN sub.billing = "send_invoice" ELSE FALSE,
                 !.stripe_email = stripe_customer.email]
    IN [response |-> render("corporate/billing.html", c4),
        stripe_calls |-> IF sub # NoSubscription THEN 2 ELSE 1]

\* faulty variant: the upcoming invoice total is requested without a subscription too
billing_home_view_always_invoice(user, cust, stripe_customer, invoice_total) ==
    IF ~cust.exists
    THEN [response |-> HttpResponseRedirect("corporate.views.initial_upgrade"),
          stripe_calls |-> 0]
    ELSE IF ~cust.has_billing_relationship
    THEN [response |-> HttpResponseRedirect("corporate.views.initial_upgrade"),
          stripe_calls |-> 0]
    ELSE IF ~is_realm_admin(user) /\ ~is_billing_admin(user)
    THEN [response |-> render("corporate/billing.html", BillingContext), stripe_calls |-> 0]
    ELSE
    LET sub == extract_current_subscription(stripe_customer)
        balance == stripe_customer.account_balance
        c1 == [BillingContext EXCEPT !.admin_access = TRUE]
        c2 == IF balance > 0 THEN [c1 EXCEPT !.account_charges = Format2f(balance)] ELSE c1
        c3 == IF balance < 0 THEN [c2 EXCEPT !.account_credits = Format2f(-balance)] ELSE c2
        renewal_amount == invoice_total
        c4 == [c3 EXCEPT
                 !.plan_name = IF sub # NoSubscription THEN PLAN_NAMES(sub.plan)
                               ELSE "Zulip Free",
                 !.licenses = IF sub # NoSubscription THEN sub.quantity ELSE 0,
                 !.renewal_date = IF sub # NoSubscription
                                  THEN [fmt |-> "{dt:%B} {dt.day}, {dt.year}",
                                        dt |-> sub.current_period_end]
                                  ELSE NoDate,
                 !.renewal_amount = Format2f(renewal_amount),
                 !.payment_method = payment_method_string(stripe_customer),
                 !.billed_by_invoice = IF sub # NoSubscription
                                       THEN sub.billing = "send_invoice" ELSE FALSE,
                 !.stripe_email = stripe_customer.email]
    IN [response |-> render("corporate/billing.html", c4),
        stripe_calls |-> 2]

\* faulty variant: a zero balance is shown as a charge
billing_home_view_zero_charges(user, cust, stripe_customer, invoice_total) ==
    IF ~cust.exists
    THEN [response |-> HttpResponseRedirect("corporate.views.initial_upgrade"),
          stripe_calls |-> 0]
    ELSE IF ~cust.has_billing_relationship
    THEN [response |-> HttpResponseRedirect("corporate.views.initial_upgrade"),
          stripe_calls |-> 0]
    ELSE IF ~is_realm_admin(user) /\ ~is_billing_admin(user)
    THEN [response |-> render("corporate/billing.html", BillingContext), stripe_calls |-> 0]
    ELSE
    LET sub == extract_current_subscription(stripe_customer)
        balance == stripe_customer.account_balance
        c1 == [BillingContext EXCEPT !.admin_access = TRUE]
        c2 == IF balance >= 0 THEN [c1 EXCEPT !.account_charges = Format2f(balance)] ELSE c1
        c3 == IF balance < 0 THEN [c2 EXCEPT !.account_credits = Format2f(-balance)] ELSE c2
        renewal_amount == IF sub # NoSubscription THEN invoice_total ELSE 0
        c4 == [c3 EXCEPT
                 !.plan_name = IF sub # NoSubscription THEN PLAN_NAMES(sub.plan)
                               ELSE "Zulip Free",
                 !.licenses = IF sub # NoSubscription THEN sub.quantity ELSE 0,
                 !.renewal_date = IF sub # NoSubscription
                                  THEN [fmt |-> "{dt:%B} {dt.day}, {dt.year}",
                                        dt |-> sub.current_period_end]
                                  ELSE NoDate,
                 !.renewal_amount = Format2f(renewal_amount),
                 !.payment_method = payment_method_string(stripe_customer),
                 !.billed_by_invoice = IF sub # NoSubscription
                                       THEN sub.billing = "send_invoice" ELSE FALSE,
                 !.stripe_email = stripe_customer.email]
    IN [response |-> render("corporate/billing.html", c4),
        stripe_calls |-> IF sub # NoSubscription THEN 2 ELSE 1]

\* faulty variant: the restricted view is given to billing admins instead of plain members
billing_home_view_missing_not(user, cust, stripe_customer, invoice_total) ==
    IF ~cust.exists
    THEN [response |-> HttpResponseRedirect("corporate.views.initial_upgrade"),
          stripe_calls |-> 0]
    ELSE IF ~cust.has_billing_relationship
    THEN [response |-> HttpResponseRedirect("corporate.views.initial_upgrade"),
          stripe_calls |-> 0]
    ELSE IF ~is_realm_admin(user) /\ is_billing_admin(user)
    THEN [response |-> render("corporate/billing.html", BillingContext), stripe_calls |-> 0]
    ELSE
    LET sub == extract_current_subscription(stripe_customer)
        balance == stripe_customer.account_balance
        c1 == [BillingContext EXCEPT !.admin_access = TRUE]
        c2 == IF balance > 0 THEN [c1 EXCEPT !.account_charges = Format2f(balance)] ELSE c1
        c3 == IF balance < 0 THEN [c2 EXCEPT !.account_credits = Format2f(-balance)] ELSE c2
        renewal_amount == IF sub # NoSubscription THEN invoice_total ELSE 0
        c4 == [c3 EXCEPT
                 !.plan_name = IF sub # NoSubscription THEN PLAN_NAMES(sub.plan)
                               ELSE "Zulip Free",
                 !.licenses = IF sub # NoSubscription THEN sub.quantity ELSE 0,
                 !.renewal_date = IF sub # NoSubscription
                                  THEN [fmt |-> "{dt:%B} {dt.day}, {dt.year}",
                                        dt |-> sub.current_period_end]
                                  ELSE NoDate,
                 !.renewal_amount = Format2f(renewal_amount),
                 !.payment_method = payment_method_string(stripe_customer),
                 !.billed_by_invoice = IF sub # NoSubscription
                                       THEN sub.billing = "send_invoice" ELSE FALSE,
                 !.stripe_email = stripe_customer.email]
    IN [response |-> render("corporate/billing.html", c4),
        stripe_calls |-> IF sub # NoSubscription THEN 2 ELSE 1]

\* the response of billing_home and the number of processor calls it made
billing_home_view(user, cust, stripe_customer, invoice_total) ==
    IF ~cust.exists
    THEN [response |-> HttpResponseRedirect("corporate.views.initial_upgrade"),
          stripe_calls |-> 0]
    ELSE IF ~cust.has_billing_relationship
    THEN [response |-> HttpResponseRedirect("corporate.views.initial_upgrade"),
          stripe_calls |-> 0]
    ELSE IF ~is_realm_admin(user) /\ ~is_billing_admin(user)
    THEN [response |-> render("corporate/billing.html", BillingContext), stripe_calls |-> 0]
    ELSE
    LET sub == extract_current_subscription(stripe_customer)
        balance == stripe_customer.account_balance
        c1 == [BillingContext EXCEPT !.admin_access = TRUE]
        c2 == IF balance > 0 THEN [c1 EXCEPT !.account_charges = Format2f(balance)] ELSE c1
        c3 == IF balance < 0 THEN [c2 EXCEPT !.account_credits = Format2f(-balance)] ELSE c2
        renewal_amount == IF sub # NoSubscription THEN invoice_total ELSE 0
        c4 == [c3 EXCEPT
                 !.plan_name = IF sub # NoSubscription THEN PLAN_NAMES(sub.plan)
                               ELSE "Zulip Free",
                 !.licenses = IF sub # NoSubscription THEN sub.quantity ELSE 0,
                 !.renewal_date = IF sub # NoSubscription
                                  THEN [fmt |-> "{dt:%B} {dt.day}, {dt.year}",
                                        dt |-> sub.current_period_end]
                                  ELSE NoDate,
                 !.renewal_amount = Format2f(renewal_amount),
                 !.payment_method = payment_method_string(stripe_customer),
                 !.billed_by_invoice = IF sub # NoSubscription
                                       THEN sub.billing = "send_invoice" ELSE FALSE,
                 !.stripe_email = stripe_customer.email]
    IN [response |-> render("corporate/billing.html", c4),
        stripe_calls |-> IF sub # NoSubscription THEN 2 ELSE 1]

\* what stripe_get_customer returns for the realm's customer
stripe_get_customer(balance) ==
    [subscription |-> subscription, default_source |-> default_source,
     account_balance |-> balance, email |-> "billing@example.com"]

billing_home(user) ==
    /\ Idle
    /\ \E balance \in BalanceChoices, invoice_total \in InvoiceTotalChoices :
        LET v == billing_home_view(user, customer, stripe_get_customer(balance),
                                   invoice_total) IN
        /\ v.stripe_calls = 0 => balance = 0
        /\ v.stripe_calls < 2 => invoice_total = 9600
        /\ last' = [Handled EXCEPT !.op = "billing_home", !.user = user,
                       !.before = customer, !.stripe_calls = v.stripe_calls,
                       !.account_balance = balance, !.response = v.response]
        /\ UNCHANGED <<BILLING_ENABLED, seats, customer, subscription, default_source,
                       subs_created, issued>>

\* faulty variant: a BillingError is answered without its message and description
billing_error_response_generic(exc) ==
    IF exc = NoExc THEN json_success
    ELSE IF exc.type = "BillingError" THEN json_error(CONTACT_SUPPORT, NoDescription)
    ELSE Propagates(exc)

\* the except clause of downgrade and of replace_payment_source
billing_error_response(exc) ==
    IF exc = NoExc THEN json_success
    ELSE IF exc.type = "BillingError" THEN json_error(exc.message, exc.description)
    ELSE Propagates(exc)

\* how a process_downgrade call can end: with no subscription to cancel it is a
\* no-op that returns
process_downgrade_outcomes ==
    IF subscription = NoSubscription THEN {"ok"} ELSE ProcessorOutcomes

\* faulty variant: a realm without a subscription is refused
downgrade_requires_plan(user) ==
    /\ Idle
    /\ \E outcome \in process_downgrade_outcomes :
        LET allowed == require_billing_access(user) IN
        /\ ~allowed => outcome = "ok"
        /\ IF allowed /\ outcome = "ok" THEN process_downgrade(user)
           ELSE UNCHANGED <<customer, subscription, default_source, subs_created>>
        /\ last' = [Handled EXCEPT !.op = "downgrade", !.user = user,
                       !.before = customer, !.subscription_before = subscription,
                       !.calls = IF allowed THEN 1 ELSE 0,
                       !.response = IF allowed
                                    THEN IF subscription = NoSubscription
                                         THEN json_error("no active plan", NoDescription)
                                         ELSE billing_error_response(OutcomeExc(outcome))
                                    ELSE NoBillingAccess]
        /\ UNCHANGED <<BILLING_ENABLED, seats, issued>>

downgrade(user) ==
    /\ Idle
    /\ \E outcome \in process_downgrade_outcomes :
        LET allowed == require_billing_access(user) IN
        /\ ~allowed => outcome = "ok"
        /\ IF allowed /\ outcome = "ok" THEN process_downgrade(user)
           ELSE UNCHANGED <<customer, subscription, default_source, subs_created>>
        /\ last' = [Handled EXCEPT !.op = "downgrade", !.user = user,
                       !.before = customer, !.subscription_before = subscription,
                       !.calls = IF allowed THEN 1 ELSE 0,
                       !.response = IF allowed
                                    THEN billing_error_response(OutcomeExc(outcome))
                                    ELSE NoBillingAccess]
        /\ UNCHANGED <<BILLING_ENABLED, seats, issued>>

NoCustomerError == BillingError("no existing customer", NoDescription)

replace_payment_source(user) ==
    /\ Idle
    /\ \E outcome \in ProcessorOutcomes, stripe_token \in TokenChoices \ {None} :
        LET allowed == require_billing_access(user)
            exc == IF ~customer.exists THEN NoCustomerError ELSE OutcomeExc(outcome)
        IN
        /\ (~allowed \/ ~customer.exists) => outcome = "ok"
        /\ IF allowed /\ exc = NoExc THEN do_replace_payment_source(user, stripe_token)
           ELSE UNCHANGED <<customer, subscription, default_source, subs_created>>
        /\ last' = [Handled EXCEPT !.op = "replace_payment_source", !.user = user,
                       !.before = customer, !.calls = IF allowed THEN 1 ELSE 0,
                       !.response = IF allowed THEN billing_error_response(exc)
                                    ELSE NoBillingAccess]
        /\ UNCHANGED <<BILLING_ENABLED, seats, issued>>

\* the processor side changes the default source (a card expires, staff
\* attach another kind of source through the processor's dashboard)
SourceChanges ==
    /\ Idle
    /\ customer.exists /\ customer.has_billing_relationship
    /\ \E source \in SourceChoices \ {default_source} : default_source' = source
    /\ UNCHANGED <<BILLING_ENABLED, seats, customer, subscription, subs_created, issued,
                   last>>

\* the response reaches the client and the request is over
Deliver ==
    /\ ~Idle
    /\ last' = Handled
    /\ UNCHANGED <<BILLING_ENABLED, seats, customer, subscription, default_source,
                   subs_created, issued>>

\* every view of the realm, with the upgrade requests the page's form sends
Next ==
    \/ \E user \in Users : upgrade(user, CommonRequests)
    \/ \E user \in Users : initial_upgrade(user)
    \/ \E user \in Users : billing_home(user)
    \/ \E user \in Users : downgrade(user)
    \/ \E user \in Users : replace_payment_source(user)
    \/ SourceChanges
    \/ Deliver

Spec == Init /\ [][Next]_vars

\* every upgrade request a client can send, up to the realm's first subscription
NextUpgrade ==
    \/ \E user \in Users : subs_created = 0 /\ upgrade(user, UpgradeRequests)
    \/ \E user \in Users : initial_upgrade(user)
    \/ Deliver

SpecUpgrade == Init /\ [][NextUpgrade]_vars

(* ---------------------------------------------------------------------- *)
(* Properties                                                              *)
(* ---------------------------------------------------------------------- *)

UpgradeAnswered == last.op = "upgrade"

\* the pair the request presented is one the upgrade page handed out
PresentedIssued ==
    [signed |-> last.params.signed_seat_count, salt |-> last.params.salt] \in issued

ValidationMessages ==
    {"tampered seat count", "unknown billing_modality", "unknown schedule",
     "unknown license_management", "autopay with no card", "not enough licenses"}

KnownSchedules == {"annual", "monthly"}
KnownLicenseManagement == {"automatic", "manual", "mix"}

\* C1: an upgrade request whose seat-count signature does not verify, or that
\* is answered with one of the validation errors, made no call to
\* process_initial_upgrade and is answered with a validation error.
RejectedBeforeProcessorCall ==
    (UpgradeAnswered /\ (~PresentedIssued \/ last.response.msg \in ValidationMessages))
        => /\ last.calls = 0
           /\ last.response.kind = "json_error"
           /\ last.response.msg \in ValidationMessages

RejectedBeforeProcessorCallWitness ==
    /\ UpgradeAnswered /\ PresentedIssued
    /\ last.response.msg = "not enough licenses"
    /\ last.calls = 0

\* C2: an upgrade request with valid parameters that arrives when the Customer
\* already has has_billing_relationship set makes no processor call and is
\* answered with a redirect, so that a realm has at most one subscription.
SecondUpgradeRedirected ==
    (UpgradeAnswered /\ last.before.has_billing_relationship
        /\ last.response.msg \notin ValidationMessages)
        => /\ last.calls = 0
           /\ last.response.kind = "redirect"
           /\ subs_created <= 1

\* C3: of the upgrade requests sent after two loads of the upgrade page passed
\* the has_billing_relationship check, at most one creates a subscription.
AtMostOneUpgradeSucceeds ==
    Cardinality(issued) >= 2 => subs_created <= 1

\* C4 as stated: autopay without a payment token is always answered with
\* 'autopay with no card', whatever the other fields are.
AutopayWithoutCardAlwaysNoCard ==
    (UpgradeAnswered /\ PresentedIssued
        /\ last.params.billing_modality = "charge_automatically"
        /\ last.params.stripe_token = None)
        => last.response.msg = "autopay with no card"

\* C4 amended: autopay without a payment token always fails validation, whatever
\* licenses and seat_count are: with 'unknown schedule' when the schedule is
\* unknown, else with 'unknown license_management' when that is unknown, and
\* with 'autopay with no card' in every other case.
AutopayWithoutCardFails ==
    (UpgradeAnswered /\ PresentedIssued
        /\ last.params.billing_modality = "charge_automatically"
        /\ last.params.stripe_token = None)
        => /\ last.calls = 0
           /\ last.response.kind = "json_error"
           /\ last.response.msg =
                IF last.params.schedule \notin KnownSchedules THEN "unknown schedule"
                ELSE IF last.params.license_management \notin KnownLicenseManagement
                THEN "unknown license_management"
                ELSE "autopay with no card"

AutopayWithoutCardWitness ==
    /\ UpgradeAnswered /\ PresentedIssued
    /\ last.params.billing_modality = "charge_automatically"
    /\ last.params.stripe_token = None
    /\ last.params.license_management = "manual"
    /\ last.params.licenses = 5
    /\ last.response.msg = "autopay with no card"

\* the decimal numerals of the minimums that occur
Numeral(n) ==
    CASE n = 12 -> <<"1", "2">>
      [] n = 25 -> <<"2", "5">>
      [] n = 26 -> <<"2", "6">>

InvoiceMinimum == IF seats >= MIN_INVOICED_LICENSES THEN seats ELSE MIN_INVOICED_LICENSES

\* C5: when validation is reached with billing_modality = send_invoice, the
\* minimum is max(seat_count, MIN_INVOICED_LICENSES); absent licenses or licenses
\* below it are answered with 'not enough licenses' and a description embedding
\* exactly that minimum, and licenses at or above it never are.
InvoicedLicensesMinimum ==
    (UpgradeAnswered /\ PresentedIssued /\ last.params.billing_modality = "send_invoice")
        => IF last.params.licenses = NoLicenses \/ last.params.licenses < InvoiceMinimum
           THEN /\ last.response.kind = "json_error"
                /\ last.response.msg = "not enough licenses"
                /\ last.response.error_description.arg = Numeral(InvoiceMinimum)
                /\ last.calls = 0
           ELSE last.response.msg # "not enough licenses"

InvoicedLicensesMinimumWitness ==
    /\ UpgradeAnswered /\ PresentedIssued
    /\ last.params.billing_modality = "send_invoice"
    /\ seats = 12 /\ last.params.licenses = 5
    /\ last.response.msg = "not enough licenses"
    /\ last.response.error_description.arg = <<"2", "5">>

\* C6: with charge_automatically and automatic license management the outcome
\* and the quantity sent to the processor do not depend on the licenses the
\* client sent (the quantity is the verified seat count); with send_invoice
\* they do not depend on the schedule and license_management the client sent
\* (the schedule is annual, and neither is ever reported unknown).
NormalizationPrecedesValidation ==
    (UpgradeAnswered /\ PresentedIssued)
        => /\ (last.params.billing_modality = "charge_automatically"
                 /\ last.params.license_management = "automatic")
               => IF last.params.schedule \notin KnownSchedules
                  THEN last.calls = 0 /\ last.response.msg = "unknown schedule"
                  ELSE IF last.params.stripe_token = None
                  THEN last.calls = 0 /\ last.response.msg = "autopay with no card"
                  ELSE /\ last.calls = 1
                       /\ last.licenses = seats
                       /\ last.billing_schedule =
                            IF last.params.schedule = "annual" THEN ANNUAL ELSE MONTHLY
           /\ last.params.billing_modality = "send_invoice"
               => IF last.params.licenses = NoLicenses
                     \/ last.params.licenses < InvoiceMinimum
                  THEN last.calls = 0 /\ last.response.msg = "not enough licenses"
                  ELSE /\ last.calls = 1
                       /\ last.licenses = last.params.licenses
                       /\ last.billing_schedule = ANNUAL

NormalizationWitness ==
    /\ UpgradeAnswered /\ PresentedIssued
    /\ last.params.billing_modality = "charge_automatically"
    /\ last.params.license_management = "automatic"
    /\ last.params.licenses = 5
    /\ last.calls = 1 /\ last.licenses = seats
    /\ last.response.kind = "json_success"

\* C7: every pair the page handed out unsigns to the realm's seat count; any
\* alteration of the signed value or of the salt fails with 'tampered seat
\* count', and the upgrade request then gets no count and is answered so.
SignedSeatCountRoundTrip ==
    /\ \A t \in issued :
         /\ unsign_seat_count(t.signed, t.salt) = [exc |-> NoExc, value |-> seats]
         /\ \A a \in Altered(t) :
              unsign_seat_count(a.signed, a.salt).exc
                  = BillingError("tampered seat count", NoDescription)
    /\ UpgradeAnswered
         => IF PresentedIssued
            THEN last.seat_count = seats /\ last.response.msg # "tampered seat count"
            ELSE /\ last.response = json_error("tampered seat count", NoDescription)
                 /\ last.calls = 0

SignedSeatCountWitness ==
    /\ Cardinality(issued) = 2
    /\ UpgradeAnswered /\ ~PresentedIssued
    /\ \E t \in issued : /\ last.params.signed_seat_count = t.signed
                         /\ last.params.salt # t.salt
    /\ last.response.msg = "tampered seat count"

\* C8: upgrade, downgrade and replace_payment_source never let an exception
\* leave the view; a failure that is not a BillingError is logged and answered
\* with the generic contact-support error.
UnexpectedFailuresContained ==
    last.op \in {"upgrade", "downgrade", "replace_payment_source"}
        => /\ last.response.kind \in {"json_success", "json_error"}
           /\ last.response.exc = NoExc
           /\ last.response.msg = CONTACT_SUPPORT => last.log # NoLog

AdminBillingView ==
    /\ last.op = "billing_home"
    /\ last.response.kind = "render"
    /\ last.response.context.admin_access = TRUE

\* C9: the payment-method description follows a strict priority: invoiced
\* subscription, then no default source, then a card (with its last four digits
\* verbatim), then the generic message; exactly one of the four is produced.
PaymentMethodPriority ==
    AdminBillingView
        => LET pm == last.response.context.payment_method IN
           pm = IF subscription.billing = "send_invoice"
                THEN [text |-> "Billed by invoice", arg |-> ""]
                ELSE IF default_source.object = None
                THEN [text |-> "No payment method on file", arg |-> ""]
                ELSE IF default_source.object = "card"
                THEN [text |-> "Card ending in %(last4)s", arg |-> default_source.last4]
                ELSE [text |-> "Unknown payment method. Please contact %s.",
                      arg |-> ZULIP_ADMINISTRATOR]

PaymentMethodWitness ==
    /\ AdminBillingView
    /\ subscription.billing = "send_invoice"
    /\ default_source = Card("0005")
    /\ last.response.context.payment_method.text = "Billed by invoice"

\* C10: when the realm has no Customer, or its Customer has no billing
\* relationship, billing_home answers any user with a redirect to the upgrade
\* page, without a processor call and without a billing view.
BillingHomeRedirectsToUpgrade ==
    (last.op = "billing_home"
        /\ (~last.before.exists \/ ~last.before.has_billing_relationship))
        => /\ last.response = HttpResponseRedirect("corporate.views.initial_upgrade")
           /\ last.stripe_calls = 0

BillingHomeRedirectWitness ==
    /\ last.op = "billing_home"
    /\ last.user = "iago"
    /\ last.before.exists /\ ~last.before.has_billing_relationship
    /\ last.response.kind = "redirect"

\* an upgrade request with a seat count the page signed, autopay, a known
\* schedule, automatic license management and a payment token
AutomaticAutopayRequest ==
    /\ UpgradeAnswered /\ PresentedIssued
    /\ last.params.billing_modality = "charge_automatically"
    /\ last.params.schedule \in KnownSchedules
    /\ last.params.license_management = "automatic"
    /\ last.params.stripe_token # None

\* C11: an upgrade request with a validly signed seat count n, autopay, a known
\* schedule, automatic license management and a payment token is never answered
\* with a validation error, whatever licenses the client sent; it calls
\* process_initial_upgrade once with licenses = n and the requested schedule, and
\* when that call created the subscription the answer is success.
AutomaticAutopayUpgrades ==
    AutomaticAutopayRequest
        => /\ last.response.msg \notin ValidationMessages
           /\ last.calls = 1
           /\ last.seat_count = seats
           /\ last.licenses = seats
           /\ last.billing_schedule = IF last.params.schedule = "annual" THEN ANNUAL
                                      ELSE MONTHLY
           /\ (subs_created = 1) <=> (last.response = json_success)
           /\ subs_created = 1
                => /\ subscription.quantity = seats
                   /\ subscription.plan = IF last.params.schedule = "annual"
                                          THEN CLOUD_ANNUAL ELSE CLOUD_MONTHLY

AutomaticAutopayWitness ==
    /\ AutomaticAutopayRequest
    /\ seats = 12
    /\ last.params.schedule = "monthly"
    /\ last.params.licenses = 5
    /\ last.licenses = 12
    /\ last.response = json_success

\* C12: no operation is retried: a request to upgrade, downgrade or
\* replace_payment_source calls its processor-facing routine at most once, and
\* a request that does not end in success has changed nothing, as a second
\* attempt that went through would have.
NoAutomaticRetry ==
    [][last'.op \in {"upgrade", "downgrade", "replace_payment_source"}
        => /\ last'.calls <= 1
           /\ last'.response # json_success
                => UNCHANGED <<customer, subscription, default_source, subs_created>>]_vars

NoAutomaticRetryWitness ==
    /\ last.op = "downgrade"
    /\ last.calls = 1
    /\ last.response.kind = "json_error"
    /\ last.response.msg = ProcessorBillingError.message
    /\ subscription # NoSubscription

\* C13: a replace_payment_source request that fails with a BillingError (the
\* realm has no Customer, or the processor rejects the token) is answered with
\* a json_error carrying that error's message and description, and leaves the
\* Customer and the plan as they were.
ReplacePaymentSourceFailure ==
    [][(/\ last'.op = "replace_payment_source"
        /\ last'.calls = 1
        /\ last'.response.kind = "json_error")
        => /\ LET e == IF customer.exists THEN ProcessorBillingError ELSE NoCustomerError
              IN last'.response = json_error(e.message, e.description)
           /\ UNCHANGED <<customer, subscription, default_source, subs_created>>]_vars

ReplacePaymentSourceFailureWitness ==
    /\ last.op = "replace_payment_source"
    /\ last.calls = 1
    /\ last.before.exists /\ last.before.has_billing_relationship
    /\ last.response = json_error(ProcessorBillingError.message,
                                  ProcessorBillingError.description)
    /\ default_source = Card("0005")

\* C14: for a realm or billing admin of a realm with a billing relationship
\* and no subscription, billing_home renders the free state: plan name
\* 'Zulip Free', 0 licenses, an empty renewal date, renewal amount '0.00',
\* billed_by_invoice false; it does not ask for the upcoming invoice total.
FreeStateView ==
    (AdminBillingView /\ subscription = NoSubscription)
        => LET context == last.response.context IN
           /\ context.plan_name = "Zulip Free"
           /\ context.licenses = 0
           /\ context.renewal_date = NoDate
           /\ context.renewal_amount = <<"0", ".", "0", "0">>
           /\ context.billed_by_invoice = FALSE
           /\ last.stripe_calls = 1
           /\ last.response.exc = NoExc

FreeStateViewWitness ==
    /\ AdminBillingView
    /\ last.user = "hamlet"
    /\ subs_created = 1
    /\ subscription = NoSubscription
    /\ last.response.context.plan_name = "Zulip Free"

\* C15: in the view billing_home renders for an admin, account_charges is
\* present exactly when the balance the processor reported is positive and
\* account_credits exactly when it is negative, each the formatted amount;
\* neither is present for a zero balance, and the two are never both present.
ChargesAndCreditsFollowBalance ==
    AdminBillingView
        => LET context == last.response.context
               balance == last.account_balance
           IN
           /\ context.account_charges = IF balance > 0 THEN Format2f(balance) ELSE Absent
           /\ context.account_credits = IF balance < 0 THEN Format2f(-balance) ELSE Absent
           /\ (context.account_charges # Absent) <=> (balance > 0)
           /\ (context.account_credits # Absent) <=> (balance < 0)
           /\ context.account_charges = Absent \/ context.account_credits = Absent

ChargesAndCreditsWitness ==
    /\ AdminBillingView
    /\ last.account_balance = -1500
    /\ last.response.context.account_credits = <<"1", "5", ".", "0", "0">>
    /\ last.response.context.account_charges = Absent

ProcessorCallArguments ==
    (UpgradeAnswered /\ last.calls >= 1)
        => /\ PresentedIssued
           /\ last.seat_count = seats
           /\ last.licenses # NoLicenses
           /\ last.licenses \in Nat
           /\ last.licenses >= last.seat_count
           /\ last.params.billing_modality = "send_invoice"
                => /\ last.licenses >= MIN_INVOICED_LICENSES
                   /\ last.billing_schedule = ANNUAL

ProcessorCallArgumentsWitness ==
    /\ UpgradeAnswered
    /\ last.calls = 1
    /\ last.params.billing_modality = "send_invoice"
    /\ last.params.schedule = "monthly"
    /\ seats = 12
    /\ last.licenses = MIN_INVOICED_LICENSES
    /\ last.billing_schedule = ANNUAL
    /\ subscription.quantity = MIN_INVOICED_LICENSES

\* the error the precedence order gives for the request answered last, None
\* when none of the six applies
FirstApplicableError ==
    LET p == last.params
        invoice == p.billing_modality = "send_invoice"
        licenses == IF p.billing_modality = "charge_automatically"
                       /\ p.license_management = "automatic"
                    THEN seats ELSE p.licenses
    IN
    IF ~PresentedIssued THEN "tampered seat count"
    ELSE IF p.billing_modality \notin {"send_invoice", "charge_automatically"}
    THEN "unknown billing_modality"
    ELSE IF ~invoice /\ p.schedule \notin KnownSchedules THEN "unknown schedule"
    ELSE IF ~invoice /\ p.license_management \notin KnownLicenseManagement
    THEN "unknown license_management"
    ELSE IF ~invoice /\ p.stripe_token = None THEN "autopay with no card"
    ELSE IF licenses = NoLicenses \/ licenses < (IF invoice THEN InvoiceMinimum ELSE seats)
    THEN "not enough licenses"
    ELSE None

\* C18: upgrade reports the first error that applies after normalization, in
\* the order tampered seat count, unknown billing_modality, unknown schedule,
\* unknown license_management, autopay with no card, not enough licenses; a
\* request whose seat count does not verify is answered with 'tampered seat
\* count' whatever its other parameters are.
ErrorPrecedence ==
    UpgradeAnswered
        => /\ FirstApplicableError # None
                => /\ last.response.kind = "json_error"
                   /\ last.response.msg = FirstApplicableError
                   /\ last.calls = 0
           /\ FirstApplicableError = None
                => /\ last.response.msg \notin ValidationMessages
                   /\ last.calls = 1
           /\ ~PresentedIssued => last.response.msg = "tampered seat count"

ErrorPrecedenceWitness ==
    /\ UpgradeAnswered /\ PresentedIssued
    /\ last.params.billing_modality = "charge_automatically"
    /\ last.params.schedule = "bogus"
    /\ last.params.license_management = None
    /\ last.params.stripe_token = None
    /\ last.params.licenses = NoLicenses
    /\ last.response.msg = "unknown schedule"

\* what the billing page answers the user in the current state
BillingPage(user) == billing_home_view(user, customer, stripe_get_customer(0), 9600).response

\* what the upgrade page answers in the current state
UpgradePage == initial_upgrade_view(BILLING_ENABLED, customer, seats, "s1")

\* C19: with billing enabled, in every Customer state exactly one of the
\* upgrade page and the billing page redirects, to the other page, and the
\* other one renders: following the redirects from either page ends at a
\* rendered page after at most one redirect while the Customer stays as it is.
RedirectsNeverLoop ==
    BILLING_ENABLED
        => /\ \A user \in Users :
                /\ (UpgradePage.kind = "redirect") # (BillingPage(user).kind = "redirect")
                /\ UpgradePage.kind = "redirect"
                     => /\ UpgradePage.to = "corporate.views.billing_home"
                        /\ BillingPage(user).kind = "render"
                /\ BillingPage(user).kind = "redirect"
                     => /\ BillingPage(user).to = "corporate.views.initial_upgrade"
                        /\ UpgradePage.kind = "render"
           /\ last.op = "initial_upgrade" => last.response.kind = UpgradePage.kind
           /\ last.op = "billing_home" => last.response.kind = BillingPage(last.user).kind

RedirectsNeverLoopWitness ==
    /\ BILLING_ENABLED
    /\ customer.exists /\ customer.has_billing_relationship
    /\ last.op = "initial_upgrade"
    /\ last.response = HttpResponseRedirect("corporate.views.billing_home")
    /\ BillingPage(last.user).kind = "render"

\* C20: for a user who is neither realm admin nor billing admin, in a realm
\* with a billing relationship, billing_home makes no processor call and
\* renders a view that holds admin_access = false and nothing else: plan name,
\* licenses, renewal date and amount, payment method, balance and processor
\* e-mail are all absent, whatever the subscription and the payment source are.
MemberSeesNoBillingData ==
    (/\ last.op = "billing_home"
     /\ ~is_realm_admin(last.user) /\ ~is_billing_admin(last.user)
     /\ last.before.exists /\ last.before.has_billing_relationship)
        => /\ last.stripe_calls = 0
           /\ last.account_balance = 0
           /\ last.response.kind = "render"
           /\ last.response.to = "corporate/billing.html"
           /\ last.response.context = BillingContext
           /\ last.response.context.admin_access = FALSE
           /\ last.response.context.plan_name = None
           /\ last.response.context.licenses = NoLicenses
           /\ last.response.context.renewal_date = NoDate
           /\ last.response.context.renewal_amount = Absent
           /\ last.response.context.payment_method.text = None
           /\ last.response.context.account_charges = Absent
           /\ last.response.context.account_credits = Absent
           /\ last.response.context.stripe_email = None

MemberSeesNoBillingDataWitness ==
    /\ last.op = "billing_home"
    /\ last.user = "othello"
    /\ subscription # NoSubscription
    /\ default_source = Card("4242")
    /\ last.response.context = BillingContext

====
